---- MODULE Spec2Model ----
(***************************************************************************)
(* The erasure-decoded read path of pkg/eestream/decode.go: the decoded    *)
(* reader (DecodeReaders, Read, Close and the context watcher) and the     *)
(* decoded ranger (Range).                                                 *)
(***************************************************************************)
EXTENDS Integers, Sequences, FiniteSets, TLC

(* ------------------------------ bounds -------------------------------- *)

\* number of piece indices of the erasure scheme (n)
TotalCount == 4
\* shares needed to decode one stripe (k)
RequiredCount == 2
\* bytes of one decoded block
DecodedBlockSize == 2
\* largest number of stripes a reader is constructed for
MaxStripes == 2
\* largest caller buffer handed to Read
MaxBuf == 3
\* number of goroutines that call Close explicitly
NClosers == 1
\* bytes of one encoded block (one share)
EncodedBlockSize == 2

(* ---------------------------- vocabulary ------------------------------ *)

Pieces == 0 .. (TotalCount - 1)

\* the goroutine started by DecodeReaders, and the explicit callers of Close
Watcher == 0
Callers == 1 .. NClosers
Procs == {Watcher} \cup Callers

\* a nil error of a Close call; the error returned by piece i's Close; the
\* error returned by the stripe reader's Close
NilErr == <<"nil", 0>>
PieceCloseErr(i) == <<"pieceClose", i>>
StripeCloseErr == <<"stripeClose", 0>>

Free == -1

Min(a, b) == IF a < b THEN a ELSE b

VARIABLES
    readers,          \* dr.readers: the keys of the map of piece streams
    outbuf,           \* dr.outbuf
    err,              \* dr.err ("nil" when unset)
    currentStripe,    \* dr.currentStripe
    expectedStripes,  \* dr.expectedStripes
    onceDone,         \* dr.close: the done flag of the sync.Once
    onceMu,           \* dr.close: the holder of the mutex of the sync.Once
    closeErr,         \* dr.closeErr: the aggregate (a sequence, empty = nil)
    cancelled,        \* dr.cancel() has been called
    ctxDone,          \* the ambient context has been cancelled
    pc,               \* where each goroutine of Procs is
    todo,             \* keys the range loop of Close has not visited yet
    errs,             \* the local slice errs of the close body
    panicked,         \* an unrecovered panic has ended the process
    closed,           \* per piece stream: how often its Close was invoked
    closeRes,         \* per piece stream: what its Close returned
    stripeClosed,     \* how often the stripe reader's Close was invoked
    stripeRes,        \* what the stripe reader's Close returned
    dead,             \* piece streams that failed (fatal error, early EOF)
    base,             \* the block of the stream that stripe 0 decodes to
    delivered,        \* every byte Read has returned, in order
    calls,            \* the ReadStripe invocations: <<index, succeeded>>
    lastN,            \* n of the latest Read
    lastErr,          \* err of the latest Read
    closeRet,         \* per goroutine: the values its Close calls returned
    rrs,              \* decodedRanger.rrs: the keys of the map of piece rangers
    blocks,           \* decodedRanger.inSize in encoded blocks
    offset,           \* Range's argument offset
    length,           \* Range's argument length
    rpc,              \* where Range is ("direct": the reader was not built by it)
    req,              \* per piece: where its sub-range goroutine is
    reqOk,            \* per piece: whether its sub-range request succeeded
    result,           \* the channel result of Range: <<piece, succeeded>>
    synthetic,        \* keys of readers that hold a FatalReadCloser
    discardLeft,      \* bytes io.CopyN has still to discard
    limitN,           \* LimitedReadCloser.N of the reader Range returned
    rangeErr,         \* the error Range returned ("nil": none)
    yielded,          \* every byte the reader Range returned has yielded
    lastErrL,         \* err of the latest Read of the reader Range returned
    argSize,          \* DecodeReaders' argument expectedSize
    argMbmOk,         \* whether checkMBM accepts the argument mbm
    fatalErr,         \* the error a FatalReadCloser from DecodeReaders holds
    dsizes,           \* Decode's argument rrs: piece number -> Size()
    dres              \* what Decode returned ("none": not called)

vars == <<readers, outbuf, err, currentStripe, expectedStripes, onceDone,
          onceMu, closeErr, cancelled, ctxDone, pc, todo, errs, panicked,
          closed, closeRes, stripeClosed, stripeRes, dead, base, delivered,
          calls, lastN, lastErr, closeRet, rrs, blocks, offset, length, rpc,
          req, reqOk, result, synthetic, discardLeft, limitN, rangeErr,
          yielded, lastErrL, argSize, argMbmOk, fatalErr, dsizes, dres>>

readerVars == <<outbuf, err, currentStripe, delivered, calls, lastN, lastErr>>
closeVars == <<onceDone, onceMu, closeErr, pc, todo, errs, panicked, closed,
               closeRes, stripeClosed, stripeRes, closeRet>>
envVars == <<cancelled, ctxDone, dead>>
rangeVars == <<rrs, blocks, offset, length, rpc, req, reqOk, result,
               synthetic, discardLeft, limitN, rangeErr, yielded,
               lastErrL>>
argVars == <<argSize, argMbmOk, fatalErr, dsizes, dres>>
fixedVars == <<readers, expectedStripes, base, rangeVars, argVars>>

(* ------------------------- the decoded stream -------------------------- *)

\* byte p of the decoded stream X; every position holds a distinct value
X(p) == p

\* the decoded block of stripe num of a reader whose stripe 0 is block base
Block(num) ==
    [j \in 1 .. DecodedBlockSize |-> X((base + num) * DecodedBlockSize + j - 1)]

(* ------------------------------ Init ---------------------------------- *)

\* The state DecodeReaders leaves behind for valid arguments: a map of piece
\* streams with any keys, an expected size of 0 .. MaxStripes blocks, an empty
\* output buffer, and the watcher goroutine waiting for the context.
Init ==
    /\ readers \in SUBSET Pieces
    /\ expectedStripes \in 0 .. MaxStripes
    /\ base = 0
    /\ outbuf = <<>>
    /\ err = "nil"
    /\ currentStripe = 0
    /\ onceDone = FALSE
    /\ onceMu = Free
    /\ closeErr = <<>>
    /\ cancelled = FALSE
    /\ ctxDone = FALSE
    /\ pc = [p \in Procs |-> IF p = Watcher THEN "wait" ELSE "idle"]
    /\ todo = {}
    /\ errs = <<>>
    /\ panicked = FALSE
    /\ closed = [i \in Pieces |-> 0]
    /\ closeRes = [i \in Pieces |-> NilErr]
    /\ stripeClosed = 0
    /\ stripeRes = NilErr
    /\ dead = {}
    /\ delivered = <<>>
    /\ calls = <<>>
    /\ lastN = 0
    /\ lastErr = "nil"
    /\ closeRet = [p \in Procs |-> {}]
    /\ rrs = {}
    /\ blocks = 0
    /\ offset = 0
    /\ length = 0
    /\ rpc = "direct"
    /\ req = [i \in Pieces |-> "none"]
    /\ reqOk = [i \in Pieces |-> FALSE]
    /\ result = <<>>
    /\ synthetic = {}
    /\ discardLeft = 0
    /\ limitN = 0
    /\ rangeErr = "nil"
    /\ yielded = <<>>
    /\ lastErrL = "nil"
    /\ argSize = expectedStripes * DecodedBlockSize
    /\ argMbmOk = TRUE
    /\ fatalErr = "nil"
    /\ dsizes = <<>>
    /\ dres = "none"

(* --------------------------- the stripe reader ------------------------- *)

\* piece streams that can still supply shares
Live == {i \in readers : i \notin dead /\ i \notin synthetic /\ closed[i] = 0}

\* faulty variant of ReadStripeErr: a stripe needs every piece stream
ReadStripeErrStrict ==
    IF stripeClosed > 0 THEN "Closed"
    ELSE IF Live # readers THEN "NotEnoughPieces"
    ELSE "nil"

\* faulty variant of ReadStripeErr: a stripe decodes from k - 1 piece
\* streams
ReadStripeErrLax ==
    IF stripeClosed > 0 THEN "Closed"
    ELSE IF Cardinality(Live) < RequiredCount - 1 THEN "NotEnoughPieces"
    ELSE "nil"

\* The error of StripeReader.ReadStripe ("nil": the stripe decodes): a closed
\* stripe reader fails, and so does one with fewer than k live piece streams.
ReadStripeErr ==
    IF stripeClosed > 0 THEN "Closed"
    ELSE IF Cardinality(Live) < RequiredCount THEN "NotEnoughPieces"
    ELSE "nil"

\* StripeReader.ReadStripe(num, p): the decoded block appended to p, or
\* nothing and the error
ReadStripe(num, p) ==
    IF ReadStripeErr = "nil" THEN <<p \o Block(num), "nil">>
    ELSE <<(<<>>), ReadStripeErr>>

(* ------------------------- decodedReader.Read -------------------------- *)

\* line 68: the output buffer is empty
NeedFill == Len(outbuf) <= 0

\* faulty variant of HadError: the earlier error is not looked at
HadErrorIgnored == FALSE

\* line 71: an earlier error is returned again
HadError == err # "nil"

\* faulty variant of AtEnd: the end test is off by one stripe
AtEndLate == currentStripe > expectedStripes

\* line 75: the expected stripes were read
AtEnd == currentStripe >= expectedStripes

\* faulty variant of CopyOut: the remaining bytes are not slid to the
\* beginning
CopyNoSlide(buf, n) ==
    <<SubSeq(buf, 1, Min(n, Len(buf))),
      SubSeq(buf, 1, Len(buf) - Min(n, Len(buf)))>>

\* faulty variant of CopyOut: no byte is copied to the caller
CopyNothing(buf, n) == <<<<>>, buf>>

\* lines 88-92: copy(p, outbuf) for a p of n bytes, slide, shrink:
\* <<the bytes copied, the buffer left>>
CopyOut(buf, n) ==
    <<SubSeq(buf, 1, Min(n, Len(buf))),
      SubSeq(buf, Min(n, Len(buf)) + 1, Len(buf))>>

\* Read returns (k, e) having copied the bytes got and left the buffer buf
ReadReturns(got, buf, e) ==
    /\ outbuf' = buf
    /\ delivered' = delivered \o got
    /\ lastN' = Len(got)
    /\ lastErr' = e

\* decodedReader.Read(p) with len(p) = n: what it does to the reader
ReadBody(n) ==
    /\ IF NeedFill
       THEN IF HadError
            THEN /\ ReadReturns(<<>>, outbuf, err)
                 /\ UNCHANGED <<err, currentStripe, calls>>
            ELSE IF AtEnd
            THEN /\ err' = "EOF"
                 /\ ReadReturns(<<>>, outbuf, "EOF")
                 /\ UNCHANGED <<currentStripe, calls>>
            ELSE LET rs == ReadStripe(currentStripe, outbuf) IN
                 /\ calls' = Append(calls, <<currentStripe, rs[2] = "nil">>)
                 /\ err' = rs[2]
                 /\ IF rs[2] # "nil"
                    THEN /\ ReadReturns(<<>>, rs[1], rs[2])
                         /\ UNCHANGED currentStripe
                    ELSE /\ currentStripe' = currentStripe + 1
                         /\ ReadReturns(CopyOut(rs[1], n)[1],
                                        CopyOut(rs[1], n)[2], "nil")
       ELSE /\ ReadReturns(CopyOut(outbuf, n)[1], CopyOut(outbuf, n)[2], "nil")
            /\ UNCHANGED <<err, currentStripe, calls>>

\* a Read by the caller of DecodeReaders
Read(n) ==
    /\ ~panicked
    /\ rpc = "direct"
    /\ ReadBody(n)
    /\ UNCHANGED envVars
    /\ UNCHANGED closeVars
    /\ UNCHANGED fixedVars

\* a piece stream fails: a fatal error or a premature EOF
Kill(i) ==
    /\ ~panicked
    /\ i \in readers
    /\ i \notin dead
    /\ dead' = dead \cup {i}
    /\ UNCHANGED <<cancelled, ctxDone>>
    /\ UNCHANGED readerVars
    /\ UNCHANGED closeVars
    /\ UNCHANGED fixedVars

\* the ambient context passed to DecodeReaders is cancelled
CancelCtx ==
    /\ ~panicked
    /\ ~ctxDone
    /\ ctxDone' = TRUE
    /\ UNCHANGED <<cancelled, dead>>
    /\ UNCHANGED readerVars
    /\ UNCHANGED closeVars
    /\ UNCHANGED fixedVars

(* ------------------------- decodedReader.Close ------------------------- *)

\* utils.CombineErrors: the non-nil errors in the order given; the empty
\* aggregate is the nil error
CombineErrors(es) == SelectSeq(es, LAMBDA e : e # NilErr)

\* line 101: errs has len(dr.readers)+1 slots, 0 .. len(dr.readers)
ErrsLen == Cardinality(readers) + 1

\* line 104: errs[i] addresses a slot of errs
IndexInRange(i) == i < ErrsLen

\* faulty variant of OnceIsDone: a latch that is set when the function
\* starts, so that a second caller does not wait for the first
OnceStarted == onceDone \/ onceMu # Free

\* sync.Once: the function has run to its end
OnceIsDone == onceDone

\* sync.Once: the mutex can be taken
OnceMutexFree == onceMu = Free

\* an explicit caller enters Close and cancels the reader's context (line 98)
CloseCall(c) ==
    /\ ~panicked
    /\ c \in Callers
    /\ pc[c] = "idle"
    /\ rpc \in {"direct", "returned"}
    /\ cancelled' = TRUE
    /\ pc' = [pc EXCEPT ![c] = "once"]
    /\ UNCHANGED <<ctxDone, dead>>
    /\ UNCHANGED readerVars
    /\ UNCHANGED <<onceDone, onceMu, closeErr, todo, errs, panicked, closed,
                   closeRes, stripeClosed, stripeRes, closeRet>>
    /\ UNCHANGED fixedVars

\* lines 60-62: the watcher sees dr.ctx done (the ambient context cancelled,
\* or dr.cancel called) and enters Close, whose dr.cancel() changes nothing
WatcherWake ==
    /\ ~panicked
    /\ pc[Watcher] = "wait"
    /\ ctxDone \/ cancelled
    /\ cancelled' = TRUE
    /\ pc' = [pc EXCEPT ![Watcher] = "once"]
    /\ UNCHANGED <<ctxDone, dead>>
    /\ UNCHANGED readerVars
    /\ UNCHANGED <<onceDone, onceMu, closeErr, todo, errs, panicked, closed,
                   closeRes, stripeClosed, stripeRes, closeRet>>
    /\ UNCHANGED fixedVars

\* line 100, sync.Once.Do: the fast path returns when the function has run
OnceFast(c) ==
    /\ ~panicked
    /\ pc[c] = "once"
    /\ pc' = [pc EXCEPT ![c] = IF OnceIsDone THEN "ret" ELSE "lock"]
    /\ UNCHANGED envVars
    /\ UNCHANGED readerVars
    /\ UNCHANGED <<onceDone, onceMu, closeErr, todo, errs, panicked, closed,
                   closeRes, stripeClosed, stripeRes, closeRet>>
    /\ UNCHANGED fixedVars

\* line 100, sync.Once.Do: the slow path takes the mutex; the first to hold it
\* starts the function (line 101), a later one finds it done and returns
OnceLock(c) ==
    /\ ~panicked
    /\ pc[c] = "lock"
    /\ OnceMutexFree
    /\ IF OnceIsDone
       THEN /\ pc' = [pc EXCEPT ![c] = "retl"]
            /\ UNCHANGED <<onceMu, todo, errs>>
       ELSE /\ pc' = [pc EXCEPT ![c] = "loop"]
            /\ onceMu' = c
            /\ todo' = readers
            /\ errs' = [j \in 1 .. ErrsLen |-> NilErr]
    /\ UNCHANGED envVars
    /\ UNCHANGED readerVars
    /\ UNCHANGED <<onceDone, closeErr, panicked, closed, closeRes,
                   stripeClosed, stripeRes, closeRet>>
    /\ UNCHANGED fixedVars

\* lines 103-105: one iteration of the range over dr.readers (the map is
\* visited in any order): errs[i] = r.Close(). r.Close() is called first;
\* then an index outside errs panics and what r.Close() returned is lost.
\* The panic unwinds sync.Once.Do, whose deferred calls set done and free
\* the mutex, and goes on up the stack of goroutine c; dr.closeErr stays
\* nil.
ClosePiece(c, i, fails) ==
    /\ ~panicked
    /\ pc[c] = "loop"
    /\ i \in todo
    /\ i \in synthetic => ~fails
    /\ todo' = todo \ {i}
    /\ closed' = [closed EXCEPT ![i] = @ + 1]
    /\ closeRes' = [closeRes EXCEPT
                      ![i] = IF fails THEN PieceCloseErr(i) ELSE NilErr]
    /\ IF IndexInRange(i)
       THEN /\ errs' = [errs EXCEPT
                          ![i + 1] = IF fails THEN PieceCloseErr(i) ELSE NilErr]
            /\ UNCHANGED <<onceDone, onceMu, pc>>
       ELSE /\ onceDone' = TRUE
            /\ onceMu' = Free
            /\ pc' = [pc EXCEPT ![c] = "panic"]
            /\ UNCHANGED errs
    /\ UNCHANGED envVars
    /\ UNCHANGED readerVars
    /\ UNCHANGED <<closeErr, panicked, stripeClosed, stripeRes, closeRet>>
    /\ UNCHANGED fixedVars

\* lines 107-108: errs[len(dr.readers)] = dr.stripeReader.Close(), then
\* dr.closeErr = utils.CombineErrors(errs...)
CloseStripe(c, fails) ==
    /\ ~panicked
    /\ pc[c] = "loop"
    /\ todo = {}
    /\ stripeClosed' = stripeClosed + 1
    /\ stripeRes' = IF fails THEN StripeCloseErr ELSE NilErr
    /\ LET es == [errs EXCEPT
                    ![ErrsLen] = IF fails THEN StripeCloseErr ELSE NilErr]
       IN /\ errs' = es
          /\ closeErr' = CombineErrors(es)
    /\ pc' = [pc EXCEPT ![c] = "unlock"]
    /\ UNCHANGED envVars
    /\ UNCHANGED readerVars
    /\ UNCHANGED <<onceDone, onceMu, todo, panicked, closed, closeRes, closeRet>>
    /\ UNCHANGED fixedVars

\* line 109, sync.Once.Do: the function returned; done is set, the mutex freed
OnceUnlock(c) ==
    /\ ~panicked
    /\ pc[c] = "unlock"
    /\ onceDone' = TRUE
    /\ onceMu' = Free
    /\ pc' = [pc EXCEPT ![c] = "ret"]
    /\ UNCHANGED envVars
    /\ UNCHANGED readerVars
    /\ UNCHANGED <<closeErr, todo, errs, panicked, closed, closeRes,
                   stripeClosed, stripeRes, closeRet>>
    /\ UNCHANGED fixedVars

\* Close ends for goroutine c. Line 110: return dr.closeErr; the watcher
\* goroutine ends, a caller may call Close again. Or the panic of line 104
\* leaves Close: a caller up the stack may recover it and go on, with no
\* value returned; the watcher goroutine (lines 60-63) recovers nothing, and
\* a panic nobody recovers ends the process.
CloseReturn(c) ==
    /\ ~panicked
    /\ pc[c] \in {"ret", "retl", "panic"}
    /\ IF pc[c] = "panic"
       THEN /\ \/ /\ c \in Callers
                  /\ pc' = [pc EXCEPT ![c] = "idle"]
                  /\ UNCHANGED panicked
               \/ /\ panicked' = TRUE
                  /\ UNCHANGED pc
            /\ UNCHANGED closeRet
       ELSE /\ closeRet' = [closeRet EXCEPT ![c] = @ \cup {closeErr}]
            /\ pc' = [pc EXCEPT ![c] = IF c = Watcher THEN "done" ELSE "idle"]
            /\ UNCHANGED panicked
    /\ UNCHANGED envVars
    /\ UNCHANGED readerVars
    /\ UNCHANGED <<onceDone, onceMu, closeErr, todo, errs, closed,
                   closeRes, stripeClosed, stripeRes>>
    /\ UNCHANGED fixedVars

(* --------------------------- specification ----------------------------- *)

Next ==
    \/ \E n \in 0 .. MaxBuf : Read(n)
    \/ \E i \in Pieces : Kill(i)
    \/ CancelCtx
    \/ \E c \in Callers : CloseCall(c)
    \/ WatcherWake
    \/ \E c \in Procs : OnceFast(c)
    \/ \E c \in Procs : OnceLock(c)
    \/ \E c \in Procs, i \in Pieces, fails \in BOOLEAN :
           ClosePiece(c, i, fails)
    \/ \E c \in Procs, fails \in BOOLEAN : CloseStripe(c, fails)
    \/ \E c \in Procs : OnceUnlock(c)
    \/ \E c \in Procs : CloseReturn(c)

Spec == Init /\ [][Next]_vars

\* a step of goroutine c inside Close: the watcher waking up, the latch,
\* the close function, the return
CloseStep(c) ==
    \/ c = Watcher /\ WatcherWake
    \/ OnceFast(c)
    \/ OnceLock(c)
    \/ \E i \in Pieces, fails \in BOOLEAN : ClosePiece(c, i, fails)
    \/ \E fails \in BOOLEAN : CloseStripe(c, fails)
    \/ OnceUnlock(c)
    \/ CloseReturn(c)

\* The decoded reader under a fair scheduler: a goroutine that can take a
\* step of Close takes it in the end. Reads, kills, the cancellation and
\* the calls of Close are up to the caller.
SpecFair ==
    /\ Init
    /\ [][Next]_vars
    /\ \A c \in Procs : WF_vars(CloseStep(c))

(* ------------------------- decodedRanger.Range ------------------------- *)

\* decodedRanger.Size in bytes
Size == blocks * DecodedBlockSize

\* calcEncompassingBlocks: the first block of the blocks that hold
\* [off, off + len)
FirstBlock(off, len) == off \div DecodedBlockSize

\* calcEncompassingBlocks: how many blocks hold [off, off + len); none for an
\* empty range
BlockCount(off, len) ==
    IF len <= 0 THEN 0
    ELSE ((off + len + DecodedBlockSize - 1) \div DecodedBlockSize)
             - FirstBlock(off, len)

\* line 200: the bytes between the start of the first block and the offset
Lead(off, len) == off - FirstBlock(off, len) * DecodedBlockSize

\* The state at the start of Range(ctx, offset, length) on a ranger Decode
\* returned (at least k piece rangers of one size): line 178 has made the
\* channel and lines 179-186 have started one goroutine per piece.
InitRange ==
    /\ rrs \in {S \in SUBSET Pieces : Cardinality(S) >= RequiredCount}
    /\ blocks \in 0 .. MaxStripes
    /\ offset \in 0 .. Size
    /\ length \in 0 .. (Size - offset)
    /\ rpc = "requests"
    /\ req = [i \in Pieces |-> IF i \in rrs THEN "call" ELSE "none"]
    /\ reqOk = [i \in Pieces |-> FALSE]
    /\ result = <<>>
    /\ synthetic = {}
    /\ discardLeft = 0
    /\ limitN = 0
    /\ rangeErr = "nil"
    /\ yielded = <<>>
    /\ lastErrL = "nil"
    /\ argSize = BlockCount(offset, length) * DecodedBlockSize
    /\ argMbmOk = TRUE
    /\ fatalErr = "nil"
    /\ dsizes = <<>>
    /\ dres = "ranger"
    /\ readers = {}
    /\ expectedStripes = 0
    /\ base = 0
    /\ outbuf = <<>>
    /\ err = "nil"
    /\ currentStripe = 0
    /\ onceDone = FALSE
    /\ onceMu = Free
    /\ closeErr = <<>>
    /\ cancelled = FALSE
    /\ ctxDone = FALSE
    /\ pc = [p \in Procs |-> IF p = Watcher THEN "none" ELSE "idle"]
    /\ todo = {}
    /\ errs = <<>>
    /\ panicked = FALSE
    /\ closed = [i \in Pieces |-> 0]
    /\ closeRes = [i \in Pieces |-> NilErr]
    /\ stripeClosed = 0
    /\ stripeRes = NilErr
    /\ dead = {}
    /\ delivered = <<>>
    /\ calls = <<>>
    /\ lastN = 0
    /\ lastErr = "nil"
    /\ closeRet = [p \in Procs |-> {}]

\* faulty variant of ResultCap: the channel is one slot short
ResultCapShort == Cardinality(rrs) - 1

\* line 178: the capacity of the channel result
ResultCap == Cardinality(rrs)

\* lines 181-183: the sub-range request of piece i returns, a reader or an error
SubRangeReturn(i, ok) ==
    /\ ~panicked
    /\ req[i] = "call"
    /\ req' = [req EXCEPT ![i] = "send"]
    /\ reqOk' = [reqOk EXCEPT ![i] = ok]
    /\ UNCHANGED <<rrs, blocks, offset, length, rpc, result, synthetic,
                   discardLeft, limitN, rangeErr, yielded, lastErrL>>
    /\ UNCHANGED <<readers, expectedStripes, base>>
    /\ UNCHANGED envVars
    /\ UNCHANGED argVars
    /\ UNCHANGED readerVars
    /\ UNCHANGED closeVars

\* line 184: the goroutine of piece i sends its result, when the channel has
\* room, and ends
SubRangeSend(i) ==
    /\ ~panicked
    /\ req[i] = "send"
    /\ Len(result) < ResultCap
    /\ result' = Append(result, <<i, reqOk[i]>>)
    /\ req' = [req EXCEPT ![i] = "done"]
    /\ UNCHANGED <<rrs, blocks, offset, length, rpc, reqOk, synthetic,
                   discardLeft, limitN, rangeErr, yielded, lastErrL>>
    /\ UNCHANGED <<readers, expectedStripes, base>>
    /\ UNCHANGED envVars
    /\ UNCHANGED argVars
    /\ UNCHANGED readerVars
    /\ UNCHANGED closeVars

\* lines 188-195: one iteration of the receive loop; a failed request leaves
\* a FatalReadCloser in the map
Collect ==
    /\ ~panicked
    /\ rpc = "requests"
    /\ Cardinality(readers) < Cardinality(rrs)
    /\ result # <<>>
    /\ readers' = readers \cup {Head(result)[1]}
    /\ synthetic' = IF Head(result)[2] THEN synthetic
                    ELSE synthetic \cup {Head(result)[1]}
    /\ result' = Tail(result)
    /\ UNCHANGED <<rrs, blocks, offset, length, rpc, req, reqOk,
                   discardLeft, limitN, rangeErr, yielded, lastErrL>>
    /\ UNCHANGED <<expectedStripes, base>>
    /\ UNCHANGED envVars
    /\ UNCHANGED argVars
    /\ UNCHANGED readerVars
    /\ UNCHANGED closeVars

\* line 197 (DecodeReaders, lines 51-64): after the receive loop the decoded
\* reader is built over the blocks of the range and its watcher is started;
\* lines 199-200: io.CopyN is to discard the leading bytes
RangeDecode ==
    /\ ~panicked
    /\ rpc = "requests"
    /\ Cardinality(readers) = Cardinality(rrs)
    /\ expectedStripes' = BlockCount(offset, length)
    /\ base' = FirstBlock(offset, length)
    /\ pc' = [pc EXCEPT ![Watcher] = "wait"]
    /\ discardLeft' = Lead(offset, length)
    /\ rpc' = "discard"
    /\ UNCHANGED <<rrs, blocks, offset, length, req, reqOk, result, synthetic,
                   limitN, rangeErr, yielded, lastErrL>>
    /\ UNCHANGED readers
    /\ UNCHANGED envVars
    /\ UNCHANGED argVars
    /\ UNCHANGED readerVars
    /\ UNCHANGED <<onceDone, onceMu, closeErr, todo, errs, panicked, closed,
                   closeRes, stripeClosed, stripeRes, closeRet>>

\* lines 199-205, io.CopyN(ioutil.Discard, r, n): with nothing left to
\* discard it succeeds and Range returns the reader limited to length;
\* otherwise it reads at most what is left, and any error of the read, EOF
\* too, is the error of Range
DiscardStep ==
    /\ ~panicked
    /\ rpc = "discard"
    /\ IF discardLeft = 0
       THEN /\ rpc' = "returned"
            /\ limitN' = length
            /\ UNCHANGED <<discardLeft, rangeErr>>
            /\ UNCHANGED readerVars
       ELSE /\ ReadBody(discardLeft)
            /\ discardLeft' = discardLeft - lastN'
            /\ rpc' = IF lastErr' # "nil" THEN "failed" ELSE "discard"
            /\ rangeErr' = lastErr'
            /\ UNCHANGED limitN
    /\ UNCHANGED <<rrs, blocks, offset, length, req, reqOk, result, synthetic,
                   yielded, lastErrL>>
    /\ UNCHANGED <<readers, expectedStripes, base>>
    /\ UNCHANGED envVars
    /\ UNCHANGED argVars
    /\ UNCHANGED closeVars

\* LimitedReadCloser.Read(p) with len(p) = n on the reader Range returned:
\* EOF when the limit is used up, else a Read of at most the limit
LimRead(n) ==
    /\ ~panicked
    /\ rpc = "returned"
    /\ IF limitN <= 0
       THEN /\ lastErrL' = "EOF"
            /\ UNCHANGED <<limitN, yielded>>
            /\ UNCHANGED readerVars
       ELSE /\ ReadBody(Min(n, limitN))
            /\ limitN' = limitN - lastN'
            /\ lastErrL' = lastErr'
            /\ yielded' = yielded \o
                   SubSeq(delivered', Len(delivered) + 1, Len(delivered'))
    /\ UNCHANGED <<rrs, blocks, offset, length, rpc, req, reqOk, result,
                   synthetic, discardLeft, rangeErr>>
    /\ UNCHANGED <<readers, expectedStripes, base>>
    /\ UNCHANGED envVars
    /\ UNCHANGED argVars
    /\ UNCHANGED closeVars

NextRange ==
    \/ \E i \in Pieces, ok \in BOOLEAN : SubRangeReturn(i, ok)
    \/ \E i \in Pieces : SubRangeSend(i)
    \/ Collect
    \/ RangeDecode
    \/ DiscardStep
    \/ \E n \in 1 .. MaxBuf : LimRead(n)
    \/ CancelCtx
    \/ \E c \in Callers : CloseCall(c)
    \/ WatcherWake
    \/ \E c \in Procs : OnceFast(c)
    \/ \E c \in Procs : OnceLock(c)
    \/ \E c \in Procs, i \in Pieces, fails \in BOOLEAN :
           ClosePiece(c, i, fails)
    \/ \E c \in Procs, fails \in BOOLEAN : CloseStripe(c, fails)
    \/ \E c \in Procs : OnceUnlock(c)
    \/ \E c \in Procs : CloseReturn(c)

SpecRange == InitRange /\ [][NextRange]_vars

(* ------------------------------- Decode -------------------------------- *)

\* line 133: the size before any piece ranger was looked at
NoSize == -1

\* the state of the variables of a reader that has not been built
Unbuilt ==
    /\ expectedStripes = 0
    /\ base = 0
    /\ outbuf = <<>>
    /\ err = "nil"
    /\ currentStripe = 0
    /\ onceDone = FALSE
    /\ onceMu = Free
    /\ closeErr = <<>>
    /\ cancelled = FALSE
    /\ ctxDone = FALSE
    /\ pc = [p \in Procs |-> IF p = Watcher THEN "none" ELSE "idle"]
    /\ todo = {}
    /\ errs = <<>>
    /\ panicked = FALSE
    /\ closed = [i \in Pieces |-> 0]
    /\ closeRes = [i \in Pieces |-> NilErr]
    /\ stripeClosed = 0
    /\ stripeRes = NilErr
    /\ dead = {}
    /\ delivered = <<>>
    /\ calls = <<>>
    /\ lastN = 0
    /\ lastErr = "nil"
    /\ closeRet = [p \in Procs |-> {}]

\* the state of the variables of a Range that has not been called
NoRange ==
    /\ rrs = {}
    /\ blocks = 0
    /\ offset = 0
    /\ length = 0
    /\ req = [i \in Pieces |-> "none"]
    /\ reqOk = [i \in Pieces |-> FALSE]
    /\ result = <<>>
    /\ synthetic = {}
    /\ discardLeft = 0
    /\ limitN = 0
    /\ rangeErr = "nil"
    /\ yielded = <<>>
    /\ lastErrL = "nil"

\* faulty variant of TooFew: the count test is off by one
TooFewByOne(n) == n < RequiredCount - 1

\* line 130: fewer piece rangers than the scheme requires
TooFew(n) == n < RequiredCount

\* lines 133-143: the loop over rrs (in any order; here ascending), from the
\* size found so far: <<size, whether all sizes matched>>
RECURSIVE ScanSizes(_, _, _)
ScanSizes(sizes, left, size) ==
    IF left = {} THEN <<size, TRUE>>
    ELSE LET i == CHOOSE x \in left : \A y \in left : x <= y
         IN IF size = NoSize
            THEN ScanSizes(sizes, left \ {i}, sizes[i])
            ELSE IF size # sizes[i]
            THEN <<size, FALSE>>
            ELSE ScanSizes(sizes, left \ {i}, size)

\* lines 126-158, Decode(rrs, es, mbm): the error, or "empty" for the
\* ByteRanger(nil) of line 145, or "ranger" for a decodedRanger
Decode(sizes, mbmOk) ==
    IF ~mbmOk THEN "InvalidMBM"
    ELSE IF TooFew(Cardinality(DOMAIN sizes)) THEN "NotEnoughPieces"
    ELSE LET sc == ScanSizes(sizes, DOMAIN sizes, NoSize)
         IN IF ~sc[2] THEN "SizeMismatch"
            ELSE IF sc[1] = NoSize THEN "empty"
            ELSE IF sc[1] % EncodedBlockSize # 0 THEN "Misaligned"
            ELSE "ranger"

\* The arguments of a call of Decode: piece rangers with any keys and any
\* sizes up to MaxStripes encoded blocks, a valid or an invalid mbm
InitDecode ==
    /\ dsizes \in UNION {[S -> 0 .. (MaxStripes * EncodedBlockSize)] :
                            S \in SUBSET Pieces}
    /\ argMbmOk \in BOOLEAN
    /\ dres = "none"
    /\ argSize = 0
    /\ fatalErr = "nil"
    /\ rpc = "decode"
    /\ readers = {}
    /\ Unbuilt
    /\ NoRange

\* Decode is called and returns
DecodeCall ==
    /\ dres = "none"
    /\ rpc = "decode"
    /\ dres' = Decode(dsizes, argMbmOk)
    /\ UNCHANGED <<argSize, argMbmOk, fatalErr, dsizes>>
    /\ UNCHANGED <<readers, expectedStripes, base, rangeVars>>
    /\ UNCHANGED envVars
    /\ UNCHANGED readerVars
    /\ UNCHANGED closeVars

NextDecode == DecodeCall

SpecDecode == InitDecode /\ [][NextDecode]_vars

(* ---------------------------- DecodeReaders ---------------------------- *)

\* faulty variant of SizeAligned: the multiple test is left out
SizeAlignedAlways(size) == TRUE

\* line 43: expectedSize % int64(es.DecodedBlockSize()) == 0, reached with
\* expectedSize >= 0 only
SizeAligned(size) == size % DecodedBlockSize = 0

\* lines 40-50: the error DecodeReaders hands to readcloser.FatalReadCloser,
\* "nil" when the arguments pass the three tests
ArgError(size, mbmOk) ==
    IF size < 0 THEN "NegativeSize"
    ELSE IF ~SizeAligned(size) THEN "NotMultiple"
    ELSE IF ~mbmOk THEN "InvalidMBM"
    ELSE "nil"

\* The arguments of a call of DecodeReaders: piece streams with any keys,
\* any expected size from -1 to MaxStripes blocks, a valid or an invalid mbm
InitNew ==
    /\ readers \in SUBSET Pieces
    /\ argSize \in -1 .. (MaxStripes * DecodedBlockSize)
    /\ argMbmOk \in BOOLEAN
    /\ fatalErr = "nil"
    /\ dsizes = <<>>
    /\ dres = "none"
    /\ rpc = "new"
    /\ Unbuilt
    /\ NoRange

\* lines 38-65, DecodeReaders: a fatal reader for invalid arguments; else
\* the decodedReader with its stripe reader and its watcher goroutine
DecodeReadersCall ==
    /\ rpc = "new"
    /\ fatalErr' = ArgError(argSize, argMbmOk)
    /\ IF fatalErr' # "nil"
       THEN /\ rpc' = "fatal"
            /\ UNCHANGED <<expectedStripes, pc>>
       ELSE /\ rpc' = "direct"
            /\ expectedStripes' = argSize \div DecodedBlockSize
            /\ pc' = [pc EXCEPT ![Watcher] = "wait"]
    /\ UNCHANGED <<readers, base, rrs, blocks, offset, length, req, reqOk,
                   result, synthetic, discardLeft, limitN, rangeErr, yielded,
                   lastErrL, argSize, argMbmOk, dsizes, dres>>
    /\ UNCHANGED envVars
    /\ UNCHANGED readerVars
    /\ UNCHANGED <<onceDone, onceMu, closeErr, todo, errs, panicked, closed,
                   closeRes, stripeClosed, stripeRes, closeRet>>

\* Read of the reader made by readcloser.FatalReadCloser: no bytes and the
\* error it was made with
FatalRead(n) ==
    /\ rpc = "fatal"
    /\ lastN' = 0
    /\ lastErr' = fatalErr
    /\ UNCHANGED <<outbuf, err, currentStripe, delivered, calls>>
    /\ UNCHANGED envVars
    /\ UNCHANGED closeVars
    /\ UNCHANGED fixedVars

\* Close of the reader made by readcloser.FatalReadCloser: returns nil
FatalClose(c) ==
    /\ rpc = "fatal"
    /\ c \in Callers
    /\ closeRet' = [closeRet EXCEPT ![c] = @ \cup {<<>>}]
    /\ UNCHANGED <<onceDone, onceMu, closeErr, pc, todo, errs, panicked,
                   closed, closeRes, stripeClosed, stripeRes>>
    /\ UNCHANGED envVars
    /\ UNCHANGED readerVars
    /\ UNCHANGED fixedVars

NextNew ==
    \/ DecodeReadersCall
    \/ \E n \in 0 .. MaxBuf : FatalRead(n)
    \/ \E c \in Callers : FatalClose(c)
    \/ Next

SpecNew == InitNew /\ [][NextNew]_vars

(* ------------------------------ claims --------------------------------- *)

\* the values Close calls have returned so far
Returned == UNION {closeRet[c] : c \in Procs}

\* C1: when Read has returned EndOfStream, the bytes returned sum to exactly
\* the expected size, expectedStripes * DecodedBlockSize; as this holds in
\* every state from then on, no byte is delivered after EndOfStream.
C1_LengthExact ==
    lastErr = "EOF" => Len(delivered) = expectedStripes * DecodedBlockSize

\* C1 witness: a reader of the largest size over healthy pieces reached
\* EndOfStream
C1_Witness ==
    /\ lastErr = "EOF"
    /\ expectedStripes = MaxStripes
    /\ dead = {}
    /\ ~cancelled
    /\ Len(delivered) = MaxStripes * DecodedBlockSize

\* C2: once a Read has returned an error, every later step leaves that error
\* the result of Read, with 0 bytes, delivers nothing and invokes ReadStripe
\* no more.
C2_StickyError ==
    [][lastErr # "nil" =>
          /\ lastErr' = lastErr
          /\ lastN' = 0
          /\ calls' = calls
          /\ delivered' = delivered]_vars

\* C2 witness: a stripe error was returned after some bytes were delivered
C2_Witness ==
    /\ lastErr \notin {"nil", "EOF"}
    /\ Len(delivered) > 0
    /\ Len(calls) > 1

\* C3: every piece stream's Close and the stripe reader's Close are invoked
\* at most once, and exactly once when some Close call has returned.
C3_ClosedExactlyOnce ==
    /\ \A i \in readers : closed[i] <= 1
    /\ stripeClosed <= 1
    /\ Returned # {} =>
          /\ \A i \in readers : closed[i] = 1
          /\ stripeClosed = 1

\* C4: all Close calls return the same aggregate.
C4_SameAggregate == Cardinality(Returned) <= 1

\* C4 witness: the watcher's Close and an explicit Close have both returned a
\* non-nil aggregate, after some Read
C4_Witness ==
    /\ closeRet[Watcher] # {}
    /\ \E c \in Callers : closeRet[c] # {}
    /\ closeErr # <<>>
    /\ Len(delivered) > 0

\* C5: a Close call that is about to return, or has returned, finds every
\* piece stream closed.
C5_ReturnsAfterClosed ==
    \A c \in Procs :
        (pc[c] \in {"ret", "retl"} \/ closeRet[c] # {}) =>
            \A i \in readers : closed[i] >= 1

\* the elements of a set of piece indices in ascending order
RECURSIVE Ascending(_)
Ascending(S) ==
    IF S = {} THEN <<>>
    ELSE LET m == CHOOSE x \in S : \A y \in S : x <= y
         IN <<m>> \o Ascending(S \ {m})

\* what the Close calls of the piece streams returned, by ascending piece
\* index, followed by what the stripe reader's Close returned
ComponentErrs ==
    [j \in 1 .. Cardinality(readers) |-> closeRes[Ascending(readers)[j]]]
        \o <<stripeRes>>

\* C6: Close completes for every map of piece streams, and its aggregate
\* holds the Close error of every piece stream and of the stripe reader, by
\* ascending piece index with the stripe reader last (so it is nil exactly
\* when every component closed without error).
C6_AggregateComplete ==
    /\ ~panicked
    /\ \A c \in Procs : pc[c] # "panic"
    /\ \A c \in Procs :
          pc[c] \in {"unlock", "ret", "retl"} =>
              closeErr = CombineErrors(ComponentErrs)

\* C7: after the ambient context is cancelled every Read returns a non-nil
\* error, in every reader state.
C7_EveryReadFails ==
    [][(ctxDone /\ \E n \in 1 .. MaxBuf : Read(n)) => lastErr' # "nil"]_vars

\* C8: ReadStripe is invoked with 0, 1, 2, ... in this order, only the last
\* invocation may have failed, and the bytes delivered are the bytes of the
\* stripes in stripe order, the undelivered rest of the latest stripe being
\* the output buffer.
C8_StripeOrder ==
    /\ \A j \in 1 .. Len(calls) :
          /\ calls[j][1] = j - 1
          /\ j < Len(calls) => calls[j][2]
    /\ \A p \in 1 .. Len(delivered) :
          delivered[p] = X(base * DecodedBlockSize + p - 1)
    /\ \A p \in 1 .. Len(outbuf) :
          outbuf[p] = X(base * DecodedBlockSize + Len(delivered) + p - 1)
    /\ Len(delivered) + Len(outbuf) = currentStripe * DecodedBlockSize

\* C8 witness: every stripe of the largest reader was read and delivered
C8_Witness ==
    /\ Len(calls) = MaxStripes
    /\ \A j \in 1 .. Len(calls) : calls[j][2]
    /\ Len(delivered) = MaxStripes * DecodedBlockSize

\* no sub-range request has failed, the context is not cancelled and Close
\* has not been called
Healthy ==
    /\ ~ctxDone
    /\ ~cancelled
    /\ dead = {}
    /\ \A i \in rrs : req[i] \in {"send", "done"} => reqOk[i]

\* the reader Range returned has so far yielded a prefix of
\* X[offset .. offset+length], and has reported EOF only after all of it
YieldsRange ==
    /\ Len(yielded) <= length
    /\ \A p \in 1 .. Len(yielded) : yielded[p] = X(offset + p - 1)
    /\ lastErrL \in {"nil", "EOF"}
    /\ lastErrL = "EOF" => Len(yielded) = length

\* C9: for every offset and length within the size, Range returns (no error)
\* a reader that yields exactly X[offset .. offset+length] and then EOF.
C9_RangeExact == Healthy => (rpc # "failed" /\ YieldsRange)

\* C9 where the code satisfies it: ranges that are not empty, and empty ranges
\* at a block boundary
RangeExactUnlessEmptyMidBlock ==
    (Healthy /\ (length > 0 \/ Lead(offset, length) = 0)) =>
        (rpc # "failed" /\ YieldsRange)

\* C10: for every offset within the size, mid-block too, Range(offset, 0)
\* returns without error an empty reader whose first Read is EOF.
C10_EmptyRange ==
    (Healthy /\ length = 0) =>
        /\ rpc # "failed"
        /\ rangeErr = "nil"
        /\ yielded = <<>>
        /\ lastErrL \in {"nil", "EOF"}

\* the sizes of the piece rangers given to Decode
GivenSizes == {dsizes[i] : i \in DOMAIN dsizes}

\* C11: Decode called with an empty map of piece sources, or with piece
\* sources that all report size zero, returns no error but a ranger (whose
\* readers are at EOF at once).
C11_EmptyOrZeroSize ==
    (dres # "none" /\ argMbmOk /\ GivenSizes \subseteq {0}) =>
        dres \in {"ranger", "empty"}

\* C12: Decode returns NotEnoughPieces for fewer than k piece sources,
\* SizeMismatch when two sources differ in size, Misaligned when the common
\* size is no multiple of the encoded block size, and a ranger when none of
\* these holds (the mbm being valid).
C12_DecodeErrors ==
    (dres # "none" /\ argMbmOk) =>
        LET few == Cardinality(DOMAIN dsizes) < RequiredCount
            differ == Cardinality(GivenSizes) > 1
            misaligned == \E z \in GivenSizes : z % EncodedBlockSize # 0
        IN /\ few => dres = "NotEnoughPieces"
           /\ (~few /\ differ) => dres = "SizeMismatch"
           /\ (~few /\ ~differ /\ misaligned) => dres = "Misaligned"
           /\ (~few /\ ~differ /\ ~misaligned) => dres = "ranger"
           /\ (few \/ differ \/ misaligned) =>
                  dres \in {"NotEnoughPieces", "SizeMismatch", "Misaligned"}

\* C12 witness: exactly k piece sources of one aligned size gave a ranger
C12_Witness ==
    /\ dres = "ranger"
    /\ Cardinality(DOMAIN dsizes) = RequiredCount
    /\ GivenSizes = {MaxStripes * EncodedBlockSize}

\* the errors of the argument tests that the arguments of DecodeReaders fail
ArgViolations ==
    (IF argSize < 0 THEN {"NegativeSize"} ELSE {})
    \cup (IF argSize % DecodedBlockSize # 0 THEN {"NotMultiple"} ELSE {})
    \cup (IF ~argMbmOk THEN {"InvalidMBM"} ELSE {})

\* C13: DecodeReaders with a negative expected size, an expected size that
\* is no multiple of the decoded block size, or an invalid mbm returns a
\* reader whose Reads yield the corresponding error with no bytes and whose
\* Close returns nil; no stripe reader is used, no watcher is started and no
\* piece stream is closed.
C13_FatalReader ==
    (rpc # "new" /\ ArgViolations # {}) =>
        /\ rpc = "fatal"
        /\ fatalErr \in ArgViolations
        /\ lastN = 0
        /\ lastErr \in {"nil", fatalErr}
        /\ \A c \in Callers : closeRet[c] \subseteq {<<>>}
        /\ pc[Watcher] = "none"
        /\ calls = <<>>
        /\ delivered = <<>>
        /\ stripeClosed = 0
        /\ \A i \in Pieces : closed[i] = 0

\* C13 witness: an expected size of 3 with blocks of 2 bytes; the reader
\* was read and closed, and the context was cancelled
C13_Witness ==
    /\ rpc = "fatal"
    /\ argSize = DecodedBlockSize + 1
    /\ readers = Pieces
    /\ lastErr = "NotMultiple"
    /\ \E c \in Callers : closeRet[c] = {<<>>}
    /\ ctxDone

\* what the claim says of the values (n, err) a Read step returns
ReadResultOk ==
    /\ lastErr' = "nil" => lastN' > 0
    /\ lastErr' # "nil" => lastN' = 0

\* C14 as stated: every Read that returns no error returns n > 0 bytes and
\* every Read that returns an error returns 0 bytes, for every caller
\* buffer, the empty one included.
C14_AnyBuffer ==
    [][(\E n \in 0 .. MaxBuf : Read(n)) => ReadResultOk]_vars

\* C14 amended: every Read into a non-empty caller buffer that returns no
\* error returns n > 0 bytes, and every Read that returns an error returns
\* 0 bytes.
C14_NonEmptyBuffer ==
    [][(\E n \in 1 .. MaxBuf : Read(n)) => ReadResultOk]_vars

\* C14 witness: Reads returned bytes, and the last one returned an error
\* and no bytes
C14_Witness ==
    /\ rpc = "direct"
    /\ delivered # <<>>
    /\ lastErr = "NotEnoughPieces"
    /\ lastN = 0

\* C15: with all n piece streams given and at most n - k of them killed, at
\* any points before or during reading, and no Close begun, no Read has
\* returned an error other than EndOfStream, the bytes delivered are a
\* prefix of X, and EndOfStream comes only after all of X.
C15_ToleratesKills ==
    (rpc = "direct" /\ readers = Pieces /\ ~cancelled
       /\ Cardinality(dead) <= TotalCount - RequiredCount) =>
        /\ lastErr \in {"nil", "EOF"}
        /\ err \in {"nil", "EOF"}
        /\ Len(delivered) <= expectedStripes * DecodedBlockSize
        /\ \A p \in 1 .. Len(delivered) : delivered[p] = X(p - 1)
        /\ lastErr = "EOF" =>
              Len(delivered) = expectedStripes * DecodedBlockSize

\* C15 witness: n - k piece streams were killed and the whole of the
\* largest stream was delivered, then EndOfStream
C15_Witness ==
    /\ rpc = "direct"
    /\ readers = Pieces
    /\ ~cancelled
    /\ Cardinality(dead) = TotalCount - RequiredCount
    /\ lastErr = "EOF"
    /\ Len(delivered) = MaxStripes * DecodedBlockSize

\* C16: while n - k + 1 piece streams are dead, no stripe is decoded: a step
\* delivers buffered bytes of the stripes decoded before only, a ReadStripe
\* it makes fails, with NotEnoughPieces unless the stripe reader was closed,
\* and once Read has returned NotEnoughPieces every Read returns it again,
\* with no bytes and without invoking ReadStripe.
C16_NotEnoughPieces ==
    [][(rpc = "direct"
          /\ Cardinality(dead) >= TotalCount - RequiredCount + 1) =>
            /\ currentStripe' = currentStripe
            /\ \E m \in 0 .. Len(outbuf) :
                  delivered' = delivered \o SubSeq(outbuf, 1, m)
            /\ calls' # calls =>
                  /\ calls' = Append(calls, <<currentStripe, FALSE>>)
                  /\ lastN' = 0
                  /\ stripeClosed = 0 => lastErr' = "NotEnoughPieces"
            /\ lastErr = "NotEnoughPieces" =>
                  /\ lastErr' = "NotEnoughPieces"
                  /\ lastN' = 0
                  /\ calls' = calls]_vars

\* C16 witness: of all n piece streams n - k + 1 died after bytes had been
\* delivered, and Read returned NotEnoughPieces
C16_Witness ==
    /\ rpc = "direct"
    /\ readers = Pieces
    /\ Cardinality(dead) = TotalCount - RequiredCount + 1
    /\ stripeClosed = 0
    /\ delivered # <<>>
    /\ lastErr = "NotEnoughPieces"

\* C17: Range builds the decoded reader only after every sub-range request
\* has returned and delivered its result; the reader map then has one entry
\* per piece of the ranger, a synthetic reader exactly for the failed
\* requests; and a request goroutine that is to send finds room in the
\* channel.
C17_AllRequestsFirst ==
    /\ rpc # "requests" =>
          /\ \A i \in rrs : req[i] = "done"
          /\ result = <<>>
          /\ readers = rrs
          /\ synthetic = {i \in rrs : ~reqOk[i]}
    /\ \A i \in rrs : req[i] = "send" => Len(result) < ResultCap

\* C17 witness: the reader was built over all n pieces, some of whose
\* requests failed and some succeeded
C17_Witness ==
    /\ rpc \notin {"requests", "direct"}
    /\ rrs = Pieces
    /\ readers = rrs
    /\ synthetic # {}
    /\ synthetic # rrs

\* what C18 says of every state of the decoded reader
StripeBounds ==
    /\ 0 <= currentStripe
    /\ currentStripe <= expectedStripes
    /\ \A j \in 1 .. Len(calls) : calls[j][1] < expectedStripes
    /\ lastErr = "EOF" =>
          /\ currentStripe = expectedStripes
          /\ outbuf = <<>>

\* what C18 says of every step of the decoded reader
StripeStep ==
    /\ currentStripe' \in {currentStripe, currentStripe + 1}
    /\ currentStripe' = currentStripe + 1 <=>
          calls' = Append(calls, <<currentStripe, TRUE>>)

\* C18: in every state 0 <= currentStripe <= expectedStripes, ReadStripe
\* has been invoked with indices below expectedStripes only, and Read has
\* returned EndOfStream only with currentStripe = expectedStripes and an
\* empty output buffer; in every step currentStripe stays or grows by one,
\* and it grows exactly when a ReadStripe succeeds.
C18_StripeCounter == []StripeBounds /\ [][StripeStep]_vars

\* C18 witness: every stripe of the largest reader was read, one by one,
\* and Read returned EndOfStream
C18_Witness ==
    /\ rpc = "direct"
    /\ expectedStripes = MaxStripes
    /\ currentStripe = expectedStripes
    /\ Len(calls) = MaxStripes
    /\ outbuf = <<>>
    /\ lastErr = "EOF"

\* every piece stream and the stripe reader are closed and the watcher
\* goroutine has ended
AllReleased ==
    /\ \A i \in readers : closed[i] >= 1
    /\ stripeClosed >= 1
    /\ pc[Watcher] = "done"

\* the piece numbers of the reader are 0 .. len(readers)-1
DenseKeys == \A i \in readers : i < Cardinality(readers)

\* C19: under fair scheduling, once the ambient context is cancelled or
\* Close is called, every piece stream and the stripe reader are closed in
\* the end and the watcher goroutine ends.
C19_EventuallyReleased == (ctxDone \/ cancelled) ~> AllReleased

\* C19 for readers whose piece numbers are 0 .. len(readers)-1
ReleasedWhenDense == (DenseKeys /\ (ctxDone \/ cancelled)) ~> AllReleased

\* C20: when Range has returned an error because discarding the leading
\* bytes failed, the decoded reader it built (its stripe reader) and every
\* piece sub-range reader are closed.
C20_ClosedOnDiscardError ==
    rpc = "failed" =>
        /\ \A i \in readers : closed[i] >= 1
        /\ stripeClosed >= 1

====
